---- MODULE Spec2Model ----
(***************************************************************************)
(* torrust-hash2torrent: the HTTP front end that turns an info-hash into a *)
(* .torrent file, and the BitTorrent client wrapper it resolves through.   *)
(*                                                                         *)
(* Strings and byte buffers are sequences of bytes (0..255).  The torrent  *)
(* engine (librqbit's Session) is an external collaborator: its answer to  *)
(* add_torrent is a nondeterministic choice among the variants of          *)
(* AddTorrentResponse, constrained only by what the variants mean (a       *)
(* handle to a managed torrent exists only for a torrent the session       *)
(* manages).  Time is not counted: the request deadline of the timeout     *)
(* layer is an event that may happen whenever a handler is still pending.  *)
(***************************************************************************)
EXTENDS Integers, Sequences, FiniteSets, TLC

VARIABLES
    phase,            \* "boot", or the front end that is serving: "server" | "api"
    opt_session,      \* Client.opt_session: None or the session it holds
    managed,          \* info-hashes (hex) the session manages as downloads
    req               \* one record per request slot (a request-handling task)

vars == <<phase, opt_session, managed, req>>

\* -------------------------------------------------------------- bounds

\* Request-handling tasks that may be alive at the same time.
MaxRequests == 2

Slots == 1..MaxRequests

\* ------------------------------------------------------ program constants

StatusOK == 200
StatusBadRequest == 400
StatusRequestTimeout == 408
StatusInternalServerError == 500

\* Length of the hex form of a v1 info-hash.
InfoHashHexLen == 40

\* Option<Arc<Session>>: None, or Some of a session.  Two tokens tell a
\* session from the one it replaces.
None == "None"
Sessions == {"session_a", "session_b"}

\* Session::new_with_opts: a session that is not the one held.
NewSession(held) == IF held = "session_a" THEN "session_b" ELSE "session_a"

\* ----------------------------------------------------------- byte strings

\* ".torrent"
DotTorrent == <<46, 116, 111, 114, 114, 101, 110, 116>>
\* "attachment; filename="
AttachmentPrefix ==
    <<97, 116, 116, 97, 99, 104, 109, 101, 110, 116, 59, 32,
      102, 105, 108, 101, 110, 97, 109, 101, 61>>
\* "magnet:?xt=urn:btih:"
MagnetPrefix ==
    <<109, 97, 103, 110, 101, 116, 58, 63, 120, 116, 61,
      117, 114, 110, 58, 98, 116, 105, 104, 58>>

EndsWith(s, suffix) ==
    /\ Len(s) >= Len(suffix)
    /\ SubSeq(s, Len(s) - Len(suffix) + 1, Len(s)) = suffix

\* str::to_lowercase on ASCII text: 'A'..'Z' become 'a'..'z'.  The path
\* parameters of this model are ASCII, where it is all to_lowercase does.
LowerByte(b) == IF b >= 65 /\ b <= 90 THEN b + 32 ELSE b

InfoHashParam_lowercase(p) == [i \in 1..Len(p) |-> LowerByte(p[i])]

IsHexDigit(b) ==
    \/ b >= 48 /\ b <= 57
    \/ b >= 97 /\ b <= 102
    \/ b >= 65 /\ b <= 70

HexVal(b) ==
    IF b >= 48 /\ b <= 57 THEN b - 48
    ELSE IF b >= 97 /\ b <= 102 THEN b - 87
    ELSE b - 55

HexChar(n) == IF n < 10 THEN 48 + n ELSE 87 + n

\* InfoHash::from_str: a 40-character hex string becomes 20 bytes, anything
\* else is an error.
InfoHash_from_str(s) ==
    IF Len(s) = InfoHashHexLen /\ \A i \in 1..Len(s) : IsHexDigit(s[i])
    THEN [ok |-> TRUE,
          val |-> [i \in 1..(InfoHashHexLen \div 2) |->
                      16 * HexVal(s[2 * i - 1]) + HexVal(s[2 * i])]]
    ELSE [ok |-> FALSE, val |-> <<>>]

\* InfoHash::to_hex_string: the canonical lowercase hex form.
InfoHash_to_hex_string(h) ==
    [i \in 1..(2 * Len(h)) |->
        IF i % 2 = 1 THEN HexChar(h[(i + 1) \div 2] \div 16)
        ELSE HexChar(h[i \div 2] % 16)]

\* std::str::from_utf8(..).is_ok(): the well-formed UTF-8 byte sequences.
IsCont(b) == b >= 128 /\ b <= 191

RECURSIVE Utf8From(_, _)
Utf8From(s, i) ==
    IF i > Len(s) THEN TRUE
    ELSE LET b == s[i]
             has(k) == i + k <= Len(s)
         IN
         IF b <= 127 THEN Utf8From(s, i + 1)
         ELSE IF b >= 194 /\ b <= 223
              THEN has(1) /\ IsCont(s[i + 1]) /\ Utf8From(s, i + 2)
         ELSE IF b = 224
              THEN has(2) /\ s[i + 1] >= 160 /\ s[i + 1] <= 191
                   /\ IsCont(s[i + 2]) /\ Utf8From(s, i + 3)
         ELSE IF (b >= 225 /\ b <= 236) \/ b = 238 \/ b = 239
              THEN has(2) /\ IsCont(s[i + 1]) /\ IsCont(s[i + 2])
                   /\ Utf8From(s, i + 3)
         ELSE IF b = 237
              THEN has(2) /\ s[i + 1] >= 128 /\ s[i + 1] <= 159
                   /\ IsCont(s[i + 2]) /\ Utf8From(s, i + 3)
         ELSE IF b = 240
              THEN has(3) /\ s[i + 1] >= 144 /\ s[i + 1] <= 191
                   /\ IsCont(s[i + 2]) /\ IsCont(s[i + 3]) /\ Utf8From(s, i + 4)
         ELSE IF b >= 241 /\ b <= 243
              THEN has(3) /\ IsCont(s[i + 1]) /\ IsCont(s[i + 2])
                   /\ IsCont(s[i + 3]) /\ Utf8From(s, i + 4)
         ELSE IF b = 244
              THEN has(3) /\ s[i + 1] >= 128 /\ s[i + 1] <= 143
                   /\ IsCont(s[i + 2]) /\ IsCont(s[i + 3]) /\ Utf8From(s, i + 4)
         ELSE FALSE

from_utf8_ok(s) == Utf8From(s, 1)

\* HeaderValue::from_str(..).is_ok(), which `.parse()` calls: every byte
\* is a tab, or is not a control character.
HeaderValueOk(s) ==
    \A i \in 1..Len(s) : (s[i] >= 32 /\ s[i] /= 127) \/ s[i] = 9

\* ------------------------------------------------------------ the engine

NoName == [some |-> FALSE, val |-> <<>>]
SomeName(n) == [some |-> TRUE, val |-> n]

\* What the swarm may hold for a torrent: the declared name (info.name, raw
\* bytes, optional) and the bencoded torrent bytes.
Metainfos ==
    { [name |-> NoName, bytes |-> <<100, 101>>],                      \* no name
      [name |-> SomeName(<<117, 46, 105, 115, 111>>),                 \* "u.iso"
       bytes |-> <<100, 49, 58, 97, 101>>],
      [name |-> SomeName(<<195, 40>>), bytes |-> <<100, 101>>],       \* not UTF-8
      [name |-> SomeName(<<97, 10, 98>>),                             \* "a\nb"
       bytes |-> <<100, 49, 58, 97, 101>>] }

NoReply == [kind |-> "none", name |-> NoName, bytes |-> <<>>]

\* AddTorrent::from_url: the torrent a magnet link names.
AddTorrent_from_url(url) == SubSeq(url, Len(MagnetPrefix) + 1, Len(url))

\* Session::add_torrent(.., list_only: true): Err, or one of the three
\* variants of AddTorrentResponse.  AlreadyManaged carries a handle to a
\* torrent of the session; Added makes the torrent one.
EngineReplies ==
    { [kind |-> k, name |-> m.name, bytes |-> m.bytes] :
        k \in {"ListOnly", "AlreadyManaged"}, m \in Metainfos }
    \cup { [kind |-> k, name |-> NoName, bytes |-> <<>>] : k \in {"Err", "Added"} }

EngineMayReply(url, reply) ==
    /\ reply.kind = "AlreadyManaged" => AddTorrent_from_url(url) \in managed
    /\ reply.kind = "Added" => AddTorrent_from_url(url) \notin managed

ManagedAfter(url, reply) ==
    IF reply.kind = "Added" THEN managed \cup {AddTorrent_from_url(url)}
    ELSE managed

\* ---------------------------------------------------------- the responses

NoResponse ==
    [kind |-> "pending", status |-> 0, content_type |-> "",
     content_disposition |-> <<>>, infohash |-> <<>>, text |-> "", body |-> <<>>]

\* The handler panicked: the task ends and no response is written.
Aborted == [NoResponse EXCEPT !.kind = "aborted"]

TextResponse(status, text) ==
    [NoResponse EXCEPT !.kind = "text", !.status = status, !.text = text]

StatusResponse(status) ==
    [NoResponse EXCEPT !.kind = "status", !.status = status]

\* torrent_file_response: the three headers are parsed into header values
\* with `.expect(..)`, which panics on a value that is not one.
torrent_file_response(bytes, filename, info_hash) ==
    IF HeaderValueOk(AttachmentPrefix \o filename) /\ HeaderValueOk(info_hash)
    THEN [kind |-> "torrent", status |-> StatusOK,
          content_type |-> "application/x-bittorrent",
          content_disposition |-> AttachmentPrefix \o filename,
          infohash |-> info_hash, text |-> "", body |-> bytes]
    ELSE Aborted

\* ------------------------------------------------------------ the handlers

Ok(name, bytes) == [ok |-> TRUE, err |-> "", name |-> name, bytes |-> bytes]
Err(e) == [ok |-> FALSE, err |-> e, name |-> NoName, bytes |-> <<>>]

\* A resolve_magnet that lets a torrent added for downloading through.
resolve_magnet_AddedIsOk(reply) ==
    CASE reply.kind = "Err" -> Err("NotAdded")
      [] reply.kind = "AlreadyManaged" -> Ok(reply.name, reply.bytes)
      [] reply.kind = "ListOnly" -> Ok(reply.name, reply.bytes)
      [] reply.kind = "Added" -> Ok(reply.name, reply.bytes)

\* server::resolve_magnet, after add_torrent has answered.
resolve_magnet(reply) ==
    CASE reply.kind = "Err" -> Err("NotAdded")
      [] reply.kind = "AlreadyManaged" -> Ok(reply.name, reply.bytes)
      [] reply.kind = "ListOnly" -> Ok(reply.name, reply.bytes)
      [] reply.kind = "Added" -> Err("AddedForDownloading")

\* A match on opt_session that takes the Some arm on None as well.
Client_has_session_Always(opt) == TRUE

\* Client::resolve_magnet: the match on opt_session ...
Client_has_session(opt) == opt /= None

\* ... and, with a session, after add_torrent has answered.
Client_resolve_magnet(reply) ==
    CASE reply.kind = "Err" -> Err("NotAdded")
      [] reply.kind = "AlreadyManaged" -> Ok(reply.name, reply.bytes)
      [] reply.kind = "ListOnly" -> Ok(reply.name, reply.bytes)
      [] reply.kind = "Added" -> Err("AddedForDownloading")

\* get_metainfo: `let Ok(info_hash) = InfoHash::from_str(..) else { return 400 }`
get_metainfo_parse(param) == InfoHash_from_str(InfoHashParam_lowercase(param))

\* A handler without the early return on a parse error.
ParseFailed_Never(parsed) == FALSE

ParseFailed(parsed) == ~parsed.ok

\* get_metainfo: format!("magnet:?xt=urn:btih:{}", info_hash.to_hex_string())
magnet_link(info_hash) == MagnetPrefix \o InfoHash_to_hex_string(info_hash)

\* get_metainfo, "Resolve torrent name": the declared name when it is there
\* and is UTF-8, the hex info-hash otherwise.
torrent_name(name, info_hash) ==
    IF name.some
    THEN IF from_utf8_ok(name.val) THEN name.val
         ELSE InfoHash_to_hex_string(info_hash)
    ELSE InfoHash_to_hex_string(info_hash)

\* get_metainfo, the match on what resolve_magnet returned.
get_metainfo_respond(result, info_hash) ==
    IF result.ok
    THEN torrent_file_response(result.bytes,
                               torrent_name(result.name, info_hash) \o DotTorrent,
                               InfoHash_to_hex_string(info_hash))
    ELSE TextResponse(StatusInternalServerError, "BitTorrent client error")

\* api::handler::get_metainfo_file_handler, the same mapping over what
\* Client::resolve_magnet returned.
get_metainfo_file_handler_respond(result, info_hash) ==
    IF result.ok
    THEN torrent_file_response(result.bytes,
                               torrent_name(result.name, info_hash) \o DotTorrent,
                               InfoHash_to_hex_string(info_hash))
    ELSE TextResponse(StatusInternalServerError, "BitTorrent client error")

\* An error handler that reports the elapsed deadline as a server error.
handle_timeout_error_As500 == StatusResponse(StatusInternalServerError)

\* HandleErrorLayer::new(|_: BoxError| async { StatusCode::REQUEST_TIMEOUT })
handle_timeout_error == StatusResponse(StatusRequestTimeout)

\* ------------------------------------------------------------- the requests

\* "443c7602b4fde83d1154d6d9da48808418b181b6", the info-hash of the
\* handler's documentation.
ExampleHash ==
    <<52, 52, 51, 99, 55, 54, 48, 50, 98, 52,
      102, 100, 101, 56, 51, 100, 49, 49, 53, 52,
      100, 54, 100, 57, 100, 97, 52, 56, 56, 48,
      56, 52, 49, 56, 98, 49, 56, 49, 98, 54>>
\* The same in upper case.
ExampleHashUpper ==
    <<52, 52, 51, 67, 55, 54, 48, 50, 66, 52,
      70, 68, 69, 56, 51, 68, 49, 49, 53, 52,
      68, 54, 68, 57, 68, 65, 52, 56, 56, 48,
      56, 52, 49, 56, 66, 49, 56, 49, 66, 54>>

\* Path parameters a client may send.
PathParams ==
    { ExampleHash,
      ExampleHashUpper,
      SubSeq(ExampleHash, 1, Len(ExampleHash) - 1),     \* one too short
      ExampleHash \o <<54>>,                            \* one too long
      [ExampleHash EXCEPT ![1] = 103],                  \* "g43c..": not hex
      <<110, 111, 116, 45, 97, 45, 104, 97, 115, 104>>  \* "not-a-hash"
    }

IdleReq ==
    [pc |-> "idle", param |-> <<>>, info_hash |-> <<>>, url |-> <<>>,
     engineCalls |-> 0, call |-> "none", reply |-> NoReply, late |-> "none",
     resolved |-> "none", timedOut |-> FALSE, response |-> NoResponse]

\* The handler returns before any await: the request is answered at once.
Answered(r, param, resolved, response) ==
    [req EXCEPT ![r] = [IdleReq EXCEPT !.pc = "done", !.param = param,
                                       !.resolved = resolved,
                                       !.response = response]]

\* The handler calls session.add_torrent(..) and awaits it.
AwaitingEngine(r, param, info_hash) ==
    [req EXCEPT ![r] = [IdleReq EXCEPT !.pc = "awaiting", !.param = param,
                                       !.info_hash = info_hash,
                                       !.url = magnet_link(info_hash),
                                       !.engineCalls = 1,
                                       !.call = "inflight"]]

\* add_torrent has answered and the handler has run to its end.
Completed(r, reply, result, response) ==
    [req EXCEPT ![r].pc = "done", ![r].call = "returned", ![r].reply = reply,
                ![r].resolved = IF result.ok THEN "Ok" ELSE result.err,
                ![r].response = response]

\* ---------------------------------------------------------------- actions

Init ==
    /\ phase = "boot"
    /\ opt_session = None
    /\ managed = {}
    /\ req = [r \in Slots |-> IdleReq]

\* Client::start_session, Session::new_with_opts succeeds: the new session
\* is stored, whatever opt_session held.
StartSessionOk ==
    /\ phase = "boot"
    /\ opt_session' = NewSession(opt_session)
    /\ managed' = {}
    /\ UNCHANGED <<phase, req>>

\* Client::start_session, Session::new_with_opts fails: `?` returns the
\* error before the assignment.
StartSessionFail ==
    /\ phase = "boot"
    /\ UNCHANGED vars

\* server::start(bind_to, session): the caller hands in a session.
ServerStart ==
    /\ phase = "boot"
    /\ opt_session /= None
    /\ phase' = "server"
    /\ UNCHANGED <<opt_session, managed, req>>

\* api::start(bind_to, state): the state's client may hold no session.
ApiStart ==
    /\ phase = "boot"
    /\ phase' = "api"
    /\ UNCHANGED <<opt_session, managed, req>>

\* GET /torrents/:info_hash on the server front end, up to the first await.
ServerRequest(r, param) ==
    /\ phase = "server"
    /\ req[r].pc = "idle"
    /\ LET parsed == get_metainfo_parse(param) IN
       req' = IF ParseFailed(parsed)
              THEN Answered(r, param, "none",
                            TextResponse(StatusBadRequest, "Invalid info hash"))
              ELSE AwaitingEngine(r, param, parsed.val)
    /\ UNCHANGED <<phase, opt_session, managed>>

\* GET /torrents/:info_hash on the api front end, up to the first await.
ApiRequest(r, param) ==
    /\ phase = "api"
    /\ req[r].pc = "idle"
    /\ LET parsed == get_metainfo_parse(param) IN
       req' = IF ParseFailed(parsed)
              THEN Answered(r, param, "none",
                            TextResponse(StatusBadRequest, "Invalid info hash"))
              ELSE IF Client_has_session(opt_session)
              THEN AwaitingEngine(r, param, parsed.val)
              ELSE Answered(r, param, "NoSession",
                            get_metainfo_file_handler_respond(Err("NoSession"),
                                                              parsed.val))
    /\ UNCHANGED <<phase, opt_session, managed>>

\* add_torrent answers a handler of the server front end, which runs on to
\* its response without another await.
ServerEngineReply(r, reply) ==
    /\ phase = "server"
    /\ req[r].pc = "awaiting"
    /\ EngineMayReply(req[r].url, reply)
    /\ LET result == resolve_magnet(reply) IN
       req' = Completed(r, reply, result,
                        get_metainfo_respond(result, req[r].info_hash))
    /\ managed' = ManagedAfter(req[r].url, reply)
    /\ UNCHANGED <<phase, opt_session>>

\* The same on the api front end.
ApiEngineReply(r, reply) ==
    /\ phase = "api"
    /\ req[r].pc = "awaiting"
    /\ EngineMayReply(req[r].url, reply)
    /\ LET result == Client_resolve_magnet(reply) IN
       req' = Completed(r, reply, result,
                        get_metainfo_file_handler_respond(result, req[r].info_hash))
    /\ managed' = ManagedAfter(req[r].url, reply)
    /\ UNCHANGED <<phase, opt_session>>

\* TimeoutLayer: the deadline passes while the handler is pending.  The
\* handler's future is dropped and the error handler answers.
Timeout(r) ==
    /\ req[r].pc = "awaiting"
    /\ req' = [req EXCEPT ![r].pc = "done", ![r].call = "dropped",
                          ![r].timedOut = TRUE,
                          ![r].response = handle_timeout_error]
    /\ UNCHANGED <<phase, opt_session, managed>>

\* The engine work of a dropped add_torrent call comes to its end: it was
\* cancelled, or it got as far as one of add_torrent's results.  Nobody
\* awaits it any more.
DroppedCallEnds(r, late) ==
    /\ req[r].call = "dropped"
    /\ \/ late = "cancelled" /\ UNCHANGED managed
       \/ \E reply \in EngineReplies :
             /\ late = reply.kind
             /\ EngineMayReply(req[r].url, reply)
             /\ managed' = ManagedAfter(req[r].url, reply)
    /\ req' = [req EXCEPT ![r].call = "ended", ![r].late = late]
    /\ UNCHANGED <<phase, opt_session>>

\* The response (or the abort) is through and the task is gone: the slot is
\* free for the next request.
Close(r) ==
    /\ req[r].pc = "done"
    /\ req[r].call /= "dropped"
    /\ req' = [req EXCEPT ![r] = IdleReq]
    /\ UNCHANGED <<phase, opt_session, managed>>

LateKinds == {"cancelled", "Err", "ListOnly", "AlreadyManaged", "Added"}

Next ==
    \/ StartSessionOk
    \/ StartSessionFail
    \/ ServerStart
    \/ ApiStart
    \/ \E r \in Slots, param \in PathParams : ServerRequest(r, param)
    \/ \E r \in Slots, param \in PathParams : ApiRequest(r, param)
    \/ \E r \in Slots, reply \in EngineReplies : ServerEngineReply(r, reply)
    \/ \E r \in Slots, reply \in EngineReplies : ApiEngineReply(r, reply)
    \/ \E r \in Slots : Timeout(r)
    \/ \E r \in Slots, late \in LateKinds : DroppedCallEnds(r, late)
    \/ \E r \in Slots : Close(r)

Spec == Init /\ [][Next]_vars

\* =================================================================== claims

\* "Exactly 40 hex characters", said without the parser.
IsFortyHex(s) ==
    /\ Len(s) = InfoHashHexLen
    /\ \A i \in 1..Len(s) :
          (s[i] >= 48 /\ s[i] <= 57) \/ (s[i] >= 97 /\ s[i] <= 102)

ValidParam(r) == IsFortyHex(InfoHashParam_lowercase(req[r].param))

\* The torrent the request's add_torrent call names.
Torrent(r) == AddTorrent_from_url(req[r].url)

\* add_torrent answered the handler of r, and the answer was `kind`.
EngineAnswered(r, kinds) ==
    req[r].call = "returned" /\ req[r].reply.kind \in kinds

\* C1: a request whose path parameter, lower-cased, is not exactly 40 hex
\* characters is answered 400, and add_torrent is never called for it.
C1_InvalidHashRejectedBeforeEngine ==
    \A r \in Slots :
        (req[r].pc /= "idle" /\ ~ValidParam(r)) =>
            /\ req[r].pc = "done"
            /\ req[r].response.status = StatusBadRequest
            /\ req[r].engineCalls = 0
            /\ req[r].call = "none"

\* "not-a-hash" was requested on the server front end and answered 400.
C1_Witness ==
    \E r \in Slots :
        /\ phase = "server"
        /\ req[r].param = <<110, 111, 116, 45, 97, 45, 104, 97, 115, 104>>
        /\ req[r].response.status = StatusBadRequest
        /\ req[r].engineCalls = 0

\* C2: whenever the engine answers AlreadyManaged or ListOnly, the response
\* is 200 with Content-Type application/x-bittorrent, a Content-Disposition
\* filename ending in ".torrent", and the engine's torrent bytes as the body.
C2_SuccessIs200WithTorrent ==
    \A r \in Slots :
        EngineAnswered(r, {"AlreadyManaged", "ListOnly"}) =>
            /\ req[r].response.status = StatusOK
            /\ req[r].response.content_type = "application/x-bittorrent"
            /\ EndsWith(req[r].response.content_disposition, DotTorrent)
            /\ req[r].response.body = req[r].reply.bytes

\* C3: whenever the engine answers Added, resolve_magnet returns
\* AddedForDownloading, the response is 500 and carries no torrent bytes.
C3_AddedIs500WithoutContent ==
    \A r \in Slots :
        EngineAnswered(r, {"Added"}) =>
            /\ req[r].resolved = "AddedForDownloading"
            /\ req[r].response.status = StatusInternalServerError
            /\ req[r].response.kind = "text"
            /\ req[r].response.body = <<>>

\* The engine answered Added on each front end in turn; here, on either.
C3_Witness ==
    \E r \in Slots :
        /\ EngineAnswered(r, {"Added"})
        /\ req[r].pc = "done"
        /\ req[r].response.status = StatusInternalServerError

\* C4: a request whose deadline passed while it was being handled is
\* answered 408, and stays so whatever its engine call ends as afterwards.
C4_TimeoutAnswers408 ==
    \A r \in Slots :
        req[r].timedOut =>
            /\ req[r].pc = "done"
            /\ req[r].response.status = StatusRequestTimeout
            /\ req[r].response.kind = "status"
            /\ req[r].response.body = <<>>

\* A request timed out, its engine call then ended in a success, and the
\* response is the 408.
C4_Witness ==
    \E r \in Slots :
        /\ req[r].timedOut
        /\ req[r].late \in {"ListOnly", "AlreadyManaged"}
        /\ req[r].response.status = StatusRequestTimeout

\* C5: while the client holds no session, resolve_magnet returns NoSession
\* at once, without calling the engine, and every valid-hash request is
\* answered 500.
C5_NoSessionFailsFast ==
    (phase = "api" /\ opt_session = None) =>
        \A r \in Slots :
            /\ req[r].engineCalls = 0
            /\ req[r].call = "none"
            /\ req[r].pc /= "awaiting"
            /\ (req[r].pc = "done" /\ ValidParam(r)) =>
                  /\ req[r].resolved = "NoSession"
                  /\ req[r].response.status = StatusInternalServerError

\* Without a session, two valid-hash requests have been answered 500.
C5_Witness ==
    /\ phase = "api"
    /\ opt_session = None
    /\ \A r \in Slots :
          /\ req[r].pc = "done"
          /\ ValidParam(r)
          /\ req[r].resolved = "NoSession"
          /\ req[r].response.status = StatusInternalServerError

\* C6: a response is always produced for a successfully resolved torrent,
\* whatever bytes its declared name holds.
C6_ResolvedAlwaysAnswered ==
    \A r \in Slots :
        (req[r].pc = "done" /\ req[r].resolved = "Ok") =>
            req[r].response.kind /= "aborted"

\* C7: on a successful resolution the Content-Disposition filename is the
\* declared name plus ".torrent" when the name is there and is UTF-8, and
\* the hex info-hash plus ".torrent" in every other case.
C7_FilenameFromNameOrHash ==
    \A r \in Slots :
        (req[r].pc = "done" /\ req[r].resolved = "Ok") =>
            req[r].response.content_disposition =
                AttachmentPrefix
                \o (IF req[r].reply.name.some /\ from_utf8_ok(req[r].reply.name.val)
                    THEN req[r].reply.name.val
                    ELSE InfoHash_to_hex_string(req[r].info_hash))
                \o DotTorrent

\* C8: no download that a resolve request started is left in the session,
\* and no later request is served a success from such a download.
C8_NoDownloadLeftBehind ==
    \A r \in Slots :
        /\ EngineAnswered(r, {"Added"}) => Torrent(r) \notin managed
        /\ EngineAnswered(r, {"AlreadyManaged"}) =>
              req[r].response.status /= StatusOK

\* C9: the session is initialized at most once: once the client holds a
\* session, no call replaces it.
C9_SessionNeverReplaced ==
    [][opt_session /= None => opt_session' = opt_session]_vars

\* C10: beside a request that timed out, every other request finishes with
\* an outcome of its own: 200, 400, 500 or its own 408.
C10_SiblingsFinishWithStatus ==
    \A r, s \in Slots :
        (r /= s /\ req[r].timedOut /\ req[s].pc = "done") =>
            req[s].response.status \in
                {StatusOK, StatusBadRequest, StatusInternalServerError,
                 StatusRequestTimeout}

\* The shape of the state.
TypeOK ==
    /\ phase \in {"boot", "server", "api"}
    /\ opt_session \in {None} \cup Sessions
    /\ phase = "server" => opt_session /= None
    /\ managed \subseteq {ExampleHash}
    /\ \A r \in Slots :
          /\ req[r].pc \in {"idle", "awaiting", "done"}
          /\ req[r].param \in PathParams \cup {<<>>}
          /\ req[r].engineCalls \in {0, 1}
          /\ req[r].call \in {"none", "inflight", "returned", "dropped", "ended"}
          /\ req[r].late \in LateKinds \cup {"none"}
          /\ req[r].pc = "awaiting" <=> req[r].call = "inflight"
          /\ req[r].reply \in EngineReplies \cup {NoReply}

\* A step that times a request out changes that request alone: every other
\* task, the session and what it manages stay as they were.
TimeoutTouchesOneRequest ==
    [][\A r \in Slots :
          (~req[r].timedOut /\ req'[r].timedOut) =>
              /\ \A s \in Slots \ {r} : req'[s] = req[s]
              /\ UNCHANGED <<phase, opt_session, managed>>]_vars

====
